---------------------------- MODULE Spec2Model ----------------------------
(***************************************************************************)
(* Model of codegen-v2/src/manifest.rs: process_c_header_dir, which walks  *)
(* the parsed headers of a directory, filters and converts every           *)
(* declaration into a per-header FileInfo and writes one JSON artifact per *)
(* header, and extract_custom, the helper that pulls the identifier out of *)
(* an unrecognized type category.                                          *)
(*                                                                         *)
(* Strings that the code inspects (paths, function names) are sequences of *)
(* one-character strings, so that split, strip_suffix and contains are     *)
(* computed character by character as the code computes them.              *)
(***************************************************************************)
EXTENDS Integers, Sequences, FiniteSets

VARIABLES
    pc,         \* position in process_c_header_dir: "loop", "scan", "done", "panicked"
    todo,       \* keys of dir.map the outer for-loop has not visited yet
    dir,        \* dir.map: header path -> the items of that header read so far
    path,       \* the loop variable `path` (<<>> outside the loop body)
    file_name,  \* the local `file_name`
    file_info,  \* the local `file_info`
    out,        \* the files under out/: file path -> content
    panic,      \* payload of the panic that ended the call, or "none"
    ty,         \* argument of extract_custom
    extracted   \* <<>> before the call of extract_custom, <<result>> after it

vars == <<pc, todo, dir, path, file_name, file_info, out, panic, ty, extracted>>

(***************************************************************************)
(* Bounds of the model.                                                    *)
(***************************************************************************)
MaxHeaders == 2     \* headers in the directory map
MaxDecls == 2       \* declarations in the whole directory
MaxPtrDepth == 1    \* nesting of pointer categories in a type

(***************************************************************************)
(* Option and Result.                                                      *)
(***************************************************************************)
None == [some |-> FALSE]
Some(x) == [some |-> TRUE, val |-> x]
Ok(x) == [ok |-> TRUE, val |-> x]
Err(e) == [ok |-> FALSE, err |-> e]

(***************************************************************************)
(* String operations of the standard library, on character sequences.      *)
(***************************************************************************)
\* str::contains(pat): pat occurs in s as a contiguous substring.
Contains(s, pat) ==
    \E i \in 0..(Len(s) - Len(pat)) : SubSeq(s, i + 1, i + Len(pat)) = pat

\* s.split(sep).last(): the part of s after the last separator (all of s
\* when it holds none); split always yields at least one piece.
SplitLast(s, sep) ==
    LET at == {i \in 1..Len(s) : s[i] = sep}
        from == IF at = {} THEN 0 ELSE CHOOSE i \in at : \A j \in at : j <= i
    IN  SubSeq(s, from + 1, Len(s))

\* str::strip_suffix(suf)
StripSuffix(s, suf) ==
    IF Len(s) >= Len(suf) /\ SubSeq(s, Len(s) - Len(suf) + 1, Len(s)) = suf
    THEN Some(SubSeq(s, 1, Len(s) - Len(suf)))
    ELSE None

CreateWith == <<"C", "r", "e", "a", "t", "e", "W", "i", "t", "h">>
Delete == <<"D", "e", "l", "e", "t", "e">>
DotH == <<".", "h">>
OutPrefix == <<"o", "u", "t", "/">>
DotJson == <<".", "j", "s", "o", "n">>

\* path.to_str().unwrap().split("/").last().unwrap().strip_suffix(".h")
FileName(p) == StripSuffix(SplitLast(p, "/"), DotH)

\* format!("out/{}.json", file_name)
OutPath(name) == OutPrefix \o name \o DotJson

(***************************************************************************)
(* The grammar's types: a category wrapped in one of three qualifiers.     *)
(***************************************************************************)
Qualifiers == {"Mutable", "Const", "Extern"}
Scalars == {"Void", "Bool", "Int8", "Int16", "Int32", "Int64",
            "Uint8", "Uint16", "Uint32", "Uint64", "Float32", "Float64"}
Keywords == {<<"A">>, <<"B">>, <<"E">>}

Scalar(k) == [tag |-> "Scalar", kind |-> k]
Pointer(c) == [tag |-> "Pointer", to |-> c]
Unrecognized(kw) == [tag |-> "Unrecognized", keyword |-> kw]

RECURSIVE GTypeCategory(_)
GTypeCategory(depth) ==
    IF depth = 0
    THEN {Scalar(k) : k \in Scalars} \cup {Unrecognized(kw) : kw \in Keywords}
    ELSE GTypeCategory(depth - 1) \cup {Pointer(c) : c \in GTypeCategory(depth - 1)}

GType == [q : Qualifiers, cat : GTypeCategory(MaxPtrDepth)]

\* Faulty variant: the Extern qualifier is not unwrapped.
extract_custom_ExternNone(t) ==
    IF t.q \in {"Mutable", "Const"}
    THEN IF t.cat.tag = "Unrecognized" THEN Some(t.cat.keyword) ELSE None
    ELSE None

extract_custom(t) ==
    IF t.q \in {"Mutable", "Const", "Extern"}
    THEN IF t.cat.tag = "Unrecognized" THEN Some(t.cat.keyword) ELSE None
    ELSE None


(***************************************************************************)
(* The declarations of a header (GHeaderFileItem).  `conv` is what the     *)
(* declaration's converter (from_g_type) returns for it: "Ok" or the name  *)
(* of the Error.  Markers are kept as a set: the code only asks whether a  *)
(* marker is contained.                                                    *)
(***************************************************************************)
TwExportMethod == "TwExportMethod"
TwExportStaticMethod == "TwExportStaticMethod"
TwExportProperty == "TwExportProperty"

StructIndicatorItem(name) == [kind |-> "StructIndicator", name |-> name]
StructDeclItem(name, fields, tags, conv) ==
    [kind |-> "StructDecl", name |-> name, fields |-> fields, tags |-> tags,
     conv |-> conv]
EnumDeclItem(name, variants, conv) ==
    [kind |-> "EnumDecl", name |-> name, variants |-> variants, conv |-> conv]
FunctionDeclItem(name, markers, conv) ==
    [kind |-> "FunctionDecl", name |-> name, markers |-> markers,
     params |-> << <<"p", [q |-> "Const", cat |-> Pointer(Unrecognized(<<"A">>))]>> >>,
     return_type |-> [q |-> "Mutable", cat |-> Scalar("Bool")],
     comments |-> <<"doc">>, conv |-> conv]
OtherItem == [kind |-> "Other"]

FnCreate == <<"X", "C", "r", "e", "a", "t", "e">>
FnIs == <<"X", "I", "s">>
FnCreateWith == <<"X", "C", "r", "e", "a", "t", "e", "W", "i", "t", "h", "Y">>
FnDelete == <<"X", "D", "e", "l", "e", "t", "e">>

StructIndicators == {StructIndicatorItem(<<"A">>), StructIndicatorItem(<<"B">>)}
StructDecls ==
    {StructDeclItem(<<"A">>, << <<"f", [q |-> "Const", cat |-> Scalar("Int32")]>> >>,
                    <<"TwExportStruct">>, "Ok"),
     StructDeclItem(<<"B">>, <<>>, <<>>, "BadObject")}
EnumDecls ==
    {EnumDeclItem(<<"E">>, << <<"V", Some(0)>>, <<"W", None>> >>, "Ok"),
     EnumDeclItem(<<"F">>, <<>>, "Ok"),
     EnumDeclItem(<<"E">>, <<>>, "BadObject")}
FunctionDecls ==
    {FunctionDeclItem(FnCreate, {TwExportMethod}, "Ok"),
     FunctionDeclItem(FnIs, {TwExportStaticMethod}, "Ok"),
     FunctionDeclItem(FnIs, {TwExportMethod, TwExportStaticMethod}, "Ok"),
     FunctionDeclItem(FnCreate, {}, "Ok"),
     FunctionDeclItem(FnCreate, {TwExportProperty}, "Ok"),
     FunctionDeclItem(FnCreateWith, {TwExportStaticMethod}, "Ok"),
     FunctionDeclItem(FnDelete, {TwExportMethod}, "Ok"),
     FunctionDeclItem(FnIs, {TwExportMethod}, "BadProperty"),
     FunctionDeclItem(FnDelete, {TwExportStaticMethod}, "BadProperty")}
OtherItems == {OtherItem}

\* The header paths a directory map is drawn from.
Paths ==
    {<<"a", "/", "x", ".", "h">>, <<"b", "/", "x", ".", "h">>,
     <<"y", ".", "h">>, <<"z", ".", "c">>}

(***************************************************************************)
(* The converters.                                                         *)
(***************************************************************************)
RECURSIVE VariantOf(_)
VariantOf(cat) ==
    CASE cat.tag = "Scalar" -> [kind |-> cat.kind]
      [] cat.tag = "Unrecognized" -> [kind |-> "Struct", name |-> cat.keyword]
      [] cat.tag = "Pointer" -> VariantOf(cat.to)

TypeInfoFromGType(t) ==
    [variant |-> VariantOf(t.cat), is_constant |-> (t.q = "Const"),
     is_nullable |-> FALSE, is_pointer |-> (t.cat.tag = "Pointer")]

StructInfoFromGType(decl) ==
    IF decl.conv = "Ok"
    THEN Ok([name |-> decl.name, is_public |-> TRUE,
             fields |-> [i \in 1..Len(decl.fields) |->
                            <<decl.fields[i][1], TypeInfoFromGType(decl.fields[i][2])>>],
             tags |-> decl.tags])
    ELSE Err(decl.conv)

EnumInfoFromGType(decl) ==
    IF decl.conv = "Ok"
    THEN Ok([name |-> decl.name, is_public |-> TRUE, variants |-> decl.variants,
             tags |-> <<>>])
    ELSE Err(decl.conv)

MethodInfoFromGType(object_name, decl) ==
    IF decl.conv = "Ok" /\ decl.markers \cap {TwExportMethod, TwExportStaticMethod} # {}
    THEN Ok([name |-> decl.name, is_public |-> TRUE,
             is_static |-> (TwExportStaticMethod \in decl.markers),
             params |-> [i \in 1..Len(decl.params) |->
                            [name |-> decl.params[i][1],
                             ty |-> TypeInfoFromGType(decl.params[i][2])]],
             return_type |-> TypeInfoFromGType(decl.return_type),
             comments |-> decl.comments])
    ELSE Err(IF decl.conv = "Ok" THEN "BadProperty" ELSE decl.conv)

\* Faulty variant: the indicator's record is not public.
StructIndicatorInfo_Private(decl) ==
    [name |-> decl.name, is_public |-> FALSE, fields |-> <<>>, tags |-> <<>>]

\* The StructInfo pushed for a StructIndicator.
StructIndicatorInfo(decl) ==
    [name |-> decl.name, is_public |-> TRUE, fields |-> <<>>, tags |-> <<>>]

\* Faulty variant: the destructor pattern is not tested.
IsLifecycleName_OnlyCreateWith(name) == Contains(name, CreateWith)

\* decl.name.0.contains("CreateWith") || decl.name.0.contains("Delete")
IsLifecycleName(name) == Contains(name, CreateWith) \/ Contains(name, Delete)

\* Faulty variant: the static-export marker is not tested.
IsExported_OnlyPlain(markers) == TwExportMethod \in markers

\* Faulty variant: any marker counts as an export marker.
IsExported_AnyMarker(markers) == markers # {}

\* decl.markers.0.contains(&TwExportMethod) || ...contains(&TwExportStaticMethod)
IsExported(markers) ==
    TwExportMethod \in markers \/ TwExportStaticMethod \in markers

\* Faulty variant: the record is put in front.
Push_Front(v, x) == <<x>> \o v

\* Faulty variant: a record replaces the earlier record of its name.
Push_Merged(v, x) ==
    IF \E i \in 1..Len(v) : v[i].name = x.name
    THEN [i \in 1..Len(v) |-> IF v[i].name = x.name THEN x ELSE v[i]]
    ELSE Append(v, x)

\* Vec::push
Push(v, x) == Append(v, x)

NewFileInfo(name) ==
    [name |-> name, imports |-> <<>>, structs |-> <<>>, enums |-> <<>>,
     functions |-> <<>>, properties |-> <<>>]

NoFileInfo == NewFileInfo(<<>>)

\* serde_json::to_string_pretty(&file_info): the text written to the file,
\* kept as the one-element sequence of the value it encodes; the content of
\* a created but unwritten file is the empty sequence.
ToStringPretty(info) == Ok(<<info>>)
EmptyFile == <<>>

\* The file system after writing `content` to `file`.
WriteFile(fs, file, content) ==
    [f \in DOMAIN fs \cup {file} |-> IF f = file THEN content ELSE fs[f]]

(***************************************************************************)
(* process_c_header_dir, one action per step of its two loops.             *)
(*                                                                         *)
(* The directory map is the input.  Its keys are chosen by Init; the items *)
(* of a header are chosen as the inner loop reads them (the code reads     *)
(* them once, in order, and never looks ahead), and the end of the list is *)
(* the step Emit.  The map's iteration order is not fixed by the code, so  *)
(* the outer loop takes any header not yet visited.  A panic ends the      *)
(* call: no action is enabled after it.                                    *)
(***************************************************************************)
RECURSIVE SumLen(_, _)
SumLen(m, keys) ==
    IF keys = {} THEN 0
    ELSE LET k == CHOOSE x \in keys : TRUE
         IN  Len(m[k]) + SumLen(m, keys \ {k})

\* Number of declarations of the directory read so far.
TotalDecls == SumLen(dir, DOMAIN dir)

\* The inner loop is at an item: the iterator yields one more declaration.
AtItem == pc = "scan" /\ TotalDecls < MaxDecls

\* The iterator yields declaration d.
Read(d) == dir' = [dir EXCEPT ![path] = Append(@, d)]

\* Result::unwrap / Option::unwrap on an error: the call ends in a panic.
Panic(e) == pc' = "panicked" /\ panic' = e

Extract == <<ty, extracted>>

\* for (path, items) in &dir.map, and the body up to the inner loop.
NextHeader ==
    /\ pc = "loop"
    /\ \E p \in todo :
          /\ todo' = todo \ {p}
          /\ path' = p
          /\ LET name == FileName(p)
             IN  IF name.some
                 THEN /\ file_name' = name.val
                      /\ file_info' = NewFileInfo(name.val)
                      /\ pc' = "scan"
                      /\ panic' = panic
                 ELSE /\ Panic("NoneUnwrap")
                      /\ UNCHANGED <<file_name, file_info>>
    /\ UNCHANGED <<dir, out, Extract>>

\* GHeaderFileItem::StructIndicator(decl)
ScanStructIndicator ==
    /\ AtItem
    /\ \E d \in StructIndicators :
          /\ Read(d)
          /\ file_info' = [file_info EXCEPT
                             !.structs = Push(@, StructIndicatorInfo(d))]
    /\ UNCHANGED <<pc, todo, path, file_name, out, panic, Extract>>

\* GHeaderFileItem::StructDecl(decl)
ScanStructDecl ==
    /\ AtItem
    /\ \E d \in StructDecls :
          /\ Read(d)
          /\ LET x == StructInfoFromGType(d)
             IN  IF x.ok
                 THEN /\ file_info' = [file_info EXCEPT !.structs = Push(@, x.val)]
                      /\ UNCHANGED <<pc, panic>>
                 ELSE /\ Panic(x.err)
                      /\ file_info' = file_info
    /\ UNCHANGED <<todo, path, file_name, out, Extract>>

\* GHeaderFileItem::EnumDecl(decl)
ScanEnumDecl ==
    /\ AtItem
    /\ \E d \in EnumDecls :
          /\ Read(d)
          /\ LET x == EnumInfoFromGType(d)
             IN  IF x.ok
                 THEN /\ file_info' = [file_info EXCEPT !.enums = Push(@, x.val)]
                      /\ UNCHANGED <<pc, panic>>
                 ELSE /\ Panic(x.err)
                      /\ file_info' = file_info
    /\ UNCHANGED <<todo, path, file_name, out, Extract>>

\* GHeaderFileItem::FunctionDecl(decl)
ScanFunctionDecl ==
    /\ AtItem
    /\ \E d \in FunctionDecls :
          /\ Read(d)
          /\ IF IsLifecycleName(d.name)
             THEN UNCHANGED <<file_info, pc, panic>>
             ELSE IF IsExported(d.markers)
                  THEN LET x == MethodInfoFromGType(Some(file_name), d)
                       IN  IF x.ok
                           THEN /\ file_info' =
                                     [file_info EXCEPT !.functions = Push(@, x.val)]
                                /\ UNCHANGED <<pc, panic>>
                           ELSE /\ Panic(x.err)
                                /\ file_info' = file_info
                  ELSE UNCHANGED <<file_info, pc, panic>>
    /\ UNCHANGED <<todo, path, file_name, out, Extract>>

\* _ => {}
ScanOther ==
    /\ AtItem
    /\ \E d \in OtherItems : Read(d)
    /\ UNCHANGED <<pc, todo, path, file_name, file_info, out, panic, Extract>>

\* The outcomes of File::create followed by Write::write.
IoOutcomes == {"ok", "create_failed", "write_failed"}

\* The items of the header are exhausted: serialize file_info, create
\* out/<file_name>.json and write the text to it.
Emit ==
    /\ pc = "scan"
    /\ \E io \in IoOutcomes :
          LET content == ToStringPretty(file_info)
              file == OutPath(file_name)
          IN  CASE io = "ok" ->
                     /\ out' = WriteFile(out, file, content.val)
                     /\ pc' = "loop"
                     /\ path' = <<>>
                     /\ file_name' = <<>>
                     /\ file_info' = NoFileInfo
                     /\ panic' = panic
                [] io = "create_failed" ->
                     /\ Panic("Io")
                     /\ UNCHANGED <<out, path, file_name, file_info>>
                [] io = "write_failed" ->
                     /\ out' = WriteFile(out, file, EmptyFile)
                     /\ Panic("Io")
                     /\ UNCHANGED <<path, file_name, file_info>>
    /\ UNCHANGED <<todo, dir, Extract>>

\* The outer loop has visited every header: the function returns.
Return ==
    /\ pc = "loop"
    /\ todo = {}
    /\ pc' = "done"
    /\ UNCHANGED <<todo, dir, path, file_name, file_info, out, panic, Extract>>

Init ==
    /\ pc = "loop"
    /\ \E keys \in SUBSET Paths :
          /\ Cardinality(keys) <= MaxHeaders
          /\ todo = keys
          /\ dir = [p \in keys |-> <<>>]
    /\ path = <<>>
    /\ file_name = <<>>
    /\ file_info = NoFileInfo
    /\ out = <<>>
    /\ panic = "none"
    /\ ty = [q |-> "Mutable", cat |-> Scalar("Void")]
    /\ extracted = <<>>

Next ==
    \/ NextHeader
    \/ ScanStructIndicator
    \/ ScanStructDecl
    \/ ScanEnumDecl
    \/ ScanFunctionDecl
    \/ ScanOther
    \/ Emit
    \/ Return

Spec == Init /\ [][Next]_vars

(***************************************************************************)
(* extract_custom, applied to one type.                                    *)
(***************************************************************************)
InitExtract ==
    /\ pc = "done"
    /\ todo = {}
    /\ dir = <<>>
    /\ path = <<>>
    /\ file_name = <<>>
    /\ file_info = NoFileInfo
    /\ out = <<>>
    /\ panic = "none"
    /\ ty \in GType
    /\ extracted = <<>>

CallExtractCustom ==
    /\ extracted = <<>>
    /\ extracted' = <<extract_custom(ty)>>
    /\ UNCHANGED <<pc, todo, dir, path, file_name, file_info, out, panic, ty>>

NextExtract == CallExtractCustom

SpecExtract == InitExtract /\ [][NextExtract]_vars

(***************************************************************************)
(* Vocabulary of the properties.                                           *)
(***************************************************************************)
\* The items of the current header read so far.
Items == dir[path]

\* This step reads one more declaration of the current header.
Stepped ==
    pc = "scan" /\ path \in DOMAIN dir /\ Len(dir'[path]) = Len(dir[path]) + 1

\* The declaration read by this step.
Item == dir'[path][Len(dir'[path])]

HasLifecyclePattern(name) ==
    (\E i \in 0..(Len(name) - 10) : SubSeq(name, i + 1, i + 10) = CreateWith)
    \/ (\E i \in 0..(Len(name) - 6) : SubSeq(name, i + 1, i + 6) = Delete)

HasExportMarker(d) ==
    "TwExportMethod" \in d.markers \/ "TwExportStaticMethod" \in d.markers

\* The declarations the filter policy drops.
Filtered(d) ==
    \/ d.kind \notin {"StructIndicator", "StructDecl", "EnumDecl", "FunctionDecl"}
    \/ /\ d.kind = "FunctionDecl"
       /\ (HasLifecyclePattern(d.name) \/ ~HasExportMarker(d))

IsStructItem(d) == d.kind \in {"StructIndicator", "StructDecl"}
IsEnumItem(d) == d.kind = "EnumDecl"
IsFunctionItem(d) == d.kind = "FunctionDecl"

NamesOf(records) == [i \in 1..Len(records) |-> records[i].name]

RECURSIVE IsSubseq(_, _)
IsSubseq(a, b) ==
    IF Len(a) = 0 THEN TRUE
    ELSE IF Len(b) = 0 THEN FALSE
    ELSE IF Head(a) = Head(b) THEN IsSubseq(Tail(a), Tail(b))
    ELSE IsSubseq(a, Tail(b))

\* The MethodInfo records of every manifest, in progress or written.
AllFunctions ==
    {file_info.functions[i] : i \in 1..Len(file_info.functions)}
    \cup UNION {UNION {{out[f][k].functions[i] : i \in 1..Len(out[f][k].functions)}
                       : k \in 1..Len(out[f])} : f \in DOMAIN out}

(***************************************************************************)
(* C1: no MethodInfo whose name contains "CreateWith" or "Delete" is ever  *)
(* in the functions of a manifest, in progress or written, whatever        *)
(* markers the declarations of that name carry.                            *)
(***************************************************************************)
C1_LifecycleExcluded == \A m \in AllFunctions : ~HasLifecyclePattern(m.name)

\* An exported, convertible function with a lifecycle name has been scanned
\* next to one that was recorded.
C1_Witness ==
    /\ pc = "scan"
    /\ \E i \in 1..Len(Items) :
          /\ Items[i].kind = "FunctionDecl"
          /\ HasLifecyclePattern(Items[i].name)
          /\ HasExportMarker(Items[i])
          /\ Items[i].conv = "Ok"
    /\ Len(file_info.functions) = 1

(***************************************************************************)
(* C2 (amended): whenever a function declaration is scanned: if it lacks   *)
(* both export markers, functions is unchanged; if its name matches no     *)
(* lifecycle pattern and its conversion succeeds, then with the            *)
(* static-export marker a MethodInfo of its name with is_static = TRUE is  *)
(* appended, and with the plain export marker and without the static one a *)
(* MethodInfo of its name with is_static = FALSE is appended.              *)
(***************************************************************************)
AppendedMethod(is_static) ==
    /\ Len(file_info'.functions) = Len(file_info.functions) + 1
    /\ SubSeq(file_info'.functions, 1, Len(file_info.functions)) = file_info.functions
    /\ file_info'.functions[Len(file_info'.functions)].name = Item.name
    /\ file_info'.functions[Len(file_info'.functions)].is_static = is_static

C2_ExportGating ==
    [][(Stepped /\ Item.kind = "FunctionDecl") =>
          /\ ~HasExportMarker(Item) => file_info'.functions = file_info.functions
          /\ ("TwExportStaticMethod" \in Item.markers
                /\ ~HasLifecyclePattern(Item.name) /\ Item.conv = "Ok")
             => AppendedMethod(TRUE)
          /\ ("TwExportMethod" \in Item.markers
                /\ "TwExportStaticMethod" \notin Item.markers
                /\ ~HasLifecyclePattern(Item.name) /\ Item.conv = "Ok")
             => AppendedMethod(FALSE)]_vars

\* A plain-exported and a static-exported function have been recorded.
C2_Witness ==
    /\ pc = "scan"
    /\ Len(Items) = 2
    /\ Items[1].kind = "FunctionDecl" /\ Items[1].markers = {"TwExportMethod"}
    /\ Items[2].kind = "FunctionDecl" /\ Items[2].markers = {"TwExportStaticMethod"}
    /\ Len(file_info.functions) = 2
    /\ ~file_info.functions[1].is_static
    /\ file_info.functions[2].is_static

\* C2 as stated: the plain export marker alone (no condition on the name)
\* makes the function appear with is_static = FALSE.
C2_AsStated ==
    [][(Stepped /\ Item.kind = "FunctionDecl") =>
          /\ ~HasExportMarker(Item) => file_info'.functions = file_info.functions
          /\ ("TwExportStaticMethod" \in Item.markers
                /\ ~HasLifecyclePattern(Item.name) /\ Item.conv = "Ok")
             => AppendedMethod(TRUE)
          /\ ("TwExportMethod" \in Item.markers
                /\ "TwExportStaticMethod" \notin Item.markers
                /\ Item.conv = "Ok")
             => AppendedMethod(FALSE)]_vars

(***************************************************************************)
(* C3: scanning a StructIndicator always appends to structs the StructInfo *)
(* of the declared name with is_public = TRUE, no fields and no tags, and  *)
(* the scan goes on.                                                       *)
(***************************************************************************)
C3_ForwardIndicatorRecorded ==
    [][(Stepped /\ Item.kind = "StructIndicator") =>
          /\ file_info'.structs =
                Append(file_info.structs,
                       [name |-> Item.name, is_public |-> TRUE,
                        fields |-> <<>>, tags |-> <<>>])
          /\ pc' = "scan"]_vars

C3_Witness ==
    /\ pc = "scan"
    /\ Len(Items) = 2
    /\ Items[2].kind = "StructIndicator"
    /\ Len(file_info.structs) = 2
    /\ file_info.structs[2] =
          [name |-> Items[2].name, is_public |-> TRUE, fields |-> <<>>, tags |-> <<>>]

(***************************************************************************)
(* C4: while a header is scanned (and after a panic), the names of the     *)
(* records of structs, enums and functions are, in order, a subsequence of *)
(* the names of the struct, enum and function declarations read so far.    *)
(***************************************************************************)
C4_OrderPreserved ==
    path \in DOMAIN dir =>
        /\ IsSubseq(NamesOf(file_info.structs), NamesOf(SelectSeq(Items, IsStructItem)))
        /\ IsSubseq(NamesOf(file_info.enums), NamesOf(SelectSeq(Items, IsEnumItem)))
        /\ IsSubseq(NamesOf(file_info.functions),
                    NamesOf(SelectSeq(Items, IsFunctionItem)))

\* Two records of different names, in the order of their declarations.
C4_Witness ==
    /\ pc = "scan"
    /\ Len(Items) = 2
    /\ Len(file_info.functions) = 2
    /\ file_info.functions[1].name = Items[1].name
    /\ file_info.functions[2].name = Items[2].name
    /\ Items[1].name # Items[2].name

(***************************************************************************)
(* C5 as stated: when the converter of a scanned declaration returns an    *)
(* error, the declaration is skipped and the scan of the header goes on.   *)
(***************************************************************************)
C5_SkipOnConverterError ==
    [][(Stepped /\ ~Filtered(Item) /\ Item.kind # "StructIndicator"
          /\ Item.conv # "Ok")
       => (pc' = "scan" /\ file_info' = file_info)]_vars

(***************************************************************************)
(* C6 as stated: once the items of a header are exhausted, whatever the    *)
(* outcome of creating and writing its artifact, the loop over the headers *)
(* goes on.                                                                *)
(***************************************************************************)
C6_IoErrorSkipsFile ==
    [][(pc = "scan" /\ dir' = dir) => pc' = "loop"]_vars

(***************************************************************************)
(* C7 as stated: when process_c_header_dir returns, there are as many      *)
(* artifacts under out/ as headers in the directory map.                   *)
(***************************************************************************)
C7_OneArtifactPerHeader ==
    pc = "done" => Cardinality(DOMAIN out) = Cardinality(DOMAIN dir)

(***************************************************************************)
(* C8: the result of extract_custom is the same under the three            *)
(* qualifiers, and is Some(keyword) for an Unrecognized category and None  *)
(* for every other.                                                        *)
(***************************************************************************)
C8_QualifierTransparent ==
    extracted # <<>> =>
        /\ \A q \in Qualifiers : extract_custom([q |-> q, cat |-> ty.cat]) = extracted[1]
        /\ extracted[1] =
              IF ty.cat.tag = "Unrecognized"
              THEN [some |-> TRUE, val |-> ty.cat.keyword]
              ELSE [some |-> FALSE]

C8_Witness ==
    /\ extracted # <<>>
    /\ ty.q = "Extern"
    /\ ty.cat.tag = "Unrecognized"
    /\ extracted[1].some

(***************************************************************************)
(* C9: while a header is scanned (no converter has failed), structs holds  *)
(* one entry per StructIndicator or StructDecl read so far; a struct that  *)
(* is forward-declared and later defined has two entries of its name, the  *)
(* indicator's first.                                                      *)
(***************************************************************************)
StructPos(i) == Len(SelectSeq(SubSeq(Items, 1, i), IsStructItem))

C9_StructsNeverMerged ==
    (pc = "scan" /\ path \in DOMAIN dir) =>
        /\ Len(file_info.structs) = Len(SelectSeq(Items, IsStructItem))
        /\ \A i, j \in 1..Len(Items) :
              (i < j /\ Items[i].kind = "StructIndicator"
                 /\ Items[j].kind = "StructDecl" /\ Items[i].name = Items[j].name)
              => /\ StructPos(i) < StructPos(j)
                 /\ file_info.structs[StructPos(i)] =
                       [name |-> Items[i].name, is_public |-> TRUE,
                        fields |-> <<>>, tags |-> <<>>]
                 /\ file_info.structs[StructPos(j)].name = Items[i].name

C9_Witness ==
    /\ pc = "scan"
    /\ Len(Items) = 2
    /\ Items[1].kind = "StructIndicator"
    /\ Items[2].kind = "StructDecl"
    /\ Items[1].name = Items[2].name
    /\ Len(file_info.structs) = 2
    /\ file_info.structs[1].name = file_info.structs[2].name

(***************************************************************************)
(* C10: a step that reads a filtered declaration (a kind other than struct *)
(* indicator, struct, enum or function; a function with a lifecycle name   *)
(* or without export marker) leaves the manifest and the artifacts as they *)
(* were and raises no error, whatever was read before; a step that reads   *)
(* any other declaration changes the manifest or ends in a panic.          *)
(***************************************************************************)
C10_FilteredLeavesManifest ==
    [][Stepped =>
          IF Filtered(Item)
          THEN file_info' = file_info /\ pc' = "scan" /\ panic' = panic /\ out' = out
          ELSE file_info' # file_info \/ pc' = "panicked"]_vars

C10_Witness ==
    /\ pc = "scan"
    /\ Len(Items) = 2
    /\ Items[1].kind = "Other"
    /\ Items[2].kind = "FunctionDecl"
    /\ Filtered(Items[2])
    /\ file_info = NewFileInfo(file_name)

=============================================================================
